---- MODULE Spec2Model ----
(***************************************************************************)
(* A/B update helper of the Trident end-to-end tests                       *)
(* (e2e_tests/helpers/ab_update.py with e2e_tests/helpers/ssh_utilities.py)*)
(*                                                                         *)
(* Text is modelled character by character: a Python str is a sequence of  *)
(* one-character strings, so that split, rsplit, strip, startswith and the *)
(* sed substitutions are computed the way the code computes them.          *)
(***************************************************************************)
EXTENDS Integers, Sequences, FiniteSets, TLC

VARIABLES
    rwConfig,        \* the document at the path trident_config on the host
    rwConfigExists,  \* whether a file exists at trident_config
    localConfig,     \* the document at LOCAL_TRIDENT_CONFIG_PATH
    inputConfig,     \* the document the first staging started from
    prevConfig,      \* the document before the latest staging
    nStaged,         \* number of update_host_config_images calls completed
    version,         \* --version
    runtime_env,     \* --runtime-env
    destination_directory,  \* --destination-directory
    stage_ab_update,    \* --stage-ab-update
    finalize_ab_update, \* --finalize-ab-update
    pc,              \* where trigger_ab_update stands
    firstOutcome,    \* what connection.run did for the run of trident_run_command
    branch,          \* the branch trident_run_command took on it
    reconnects,      \* reconnect attempts trident_run_command made
    attempt,         \* attempts of the finalize loop completed
    lastOutcome,     \* what connection.run did for the latest engine run
    error,           \* the exception trigger_ab_update ended with
    selinux,         \* SELinux mode of the host
    selinuxAtStart,  \* SELinux mode of the host when trigger_ab_update began
    engineCommands,  \* engine commands handed to connection.run so far
    lastRun,         \* the latest trident_run: host facts, commands issued
    openConnections, \* connections in use that were not closed
    faulty,          \* the step whose remote sed commands the host refuses
    issued,          \* the steps trigger_ab_update has issued, in order
    raid,            \* a run of trigger_rebuild_raid (rebuild_raid.py)
    sshProcess,      \* an SshProcess and its channel (ssh_node.py)
    depends,         \* a pytest session with the depends plugin
    flash,           \* a run of FlashOsWorkflow (flash_os_workflow.py)
    patchRun,        \* a run of patch.py
    sshWait,         \* a call of wait_for_ssh_connection (deploy_on_bm.py)
    uefi             \* a call of inject_uefi_fallback_testing

stageVars == <<rwConfig, rwConfigExists, localConfig, inputConfig, prevConfig,
               nStaged>>
paramVars == <<version, runtime_env, destination_directory, stage_ab_update,
               finalize_ab_update>>
runVars == <<pc, firstOutcome, branch, reconnects, attempt, lastOutcome, error>>

hostVars == <<selinux, selinuxAtStart, engineCommands, lastRun, openConnections,
              faulty>>

mainVars == <<stageVars, paramVars, runVars, hostVars, issued>>
sideVars == <<raid, sshProcess, depends, flash, patchRun, sshWait, uefi>>

vars == <<mainVars, sideVars>>

\* a helper that is not running
Idle == [pc |-> "idle"]
SideIdle ==
    /\ raid = Idle /\ sshProcess = Idle /\ depends = Idle /\ flash = Idle
    /\ patchRun = Idle /\ sshWait = Idle /\ uefi = Idle

-----------------------------------------------------------------------------
(* Bounds of the model *)

\* At most this many filesystems[] and verityFilesystems[] entries together.
MaxEntries == 2
\* At most this many consecutive stagings of the same document.
MaxStage == 2
\* At most this many complete lines in the stdout of one engine run.
MaxLogLines == 1

-----------------------------------------------------------------------------
(* Python str operations, on sequences of characters *)

\* s.startswith(p)
StartsWith(s, p) ==
    /\ Len(s) >= Len(p)
    /\ SubSeq(s, 1, Len(p)) = p

\* whether sep occurs in s at index i (1-based), compared literally
OccursAt(s, sep, i) ==
    /\ i >= 1
    /\ i + Len(sep) - 1 <= Len(s)
    /\ SubSeq(s, i, i + Len(sep) - 1) = sep

\* s.find(sep) from index i on, 1-based; 0 when sep does not occur
RECURSIVE FindFrom(_, _, _)
FindFrom(s, sep, i) ==
    IF i + Len(sep) - 1 > Len(s) THEN 0
    ELSE IF OccursAt(s, sep, i) THEN i
    ELSE FindFrom(s, sep, i + 1)

\* s.rfind(sep) scanning down from index i, 1-based; 0 when sep does not occur
RECURSIVE RFindFrom(_, _, _)
RFindFrom(s, sep, i) ==
    IF i < 1 THEN 0
    ELSE IF OccursAt(s, sep, i) THEN i
    ELSE RFindFrom(s, sep, i - 1)

\* s.split(sep)[0]
SplitFirst(s, sep) ==
    LET i == FindFrom(s, sep, 1)
    IN  IF i = 0 THEN s ELSE SubSeq(s, 1, i - 1)

\* s.split(sep)[-1]
SplitLast(s, sep) ==
    LET i == RFindFrom(s, sep, Len(s))
    IN  IF i = 0 THEN s ELSE SubSeq(s, i + Len(sep), Len(s))

\* sep.join(s.rsplit(sep, 1)[:-1]): the text before the last sep, and the empty
\* string when s holds no sep (rsplit gives [s], and [s][:-1] is empty)
RSplitInit(s, sep) ==
    LET i == RFindFrom(s, sep, Len(s))
    IN  IF i = 0 THEN <<>> ELSE SubSeq(s, 1, i - 1)

\* s.lstrip(c)
RECURSIVE LStrip(_, _)
LStrip(s, c) ==
    IF s # <<>> /\ Head(s) = c THEN LStrip(Tail(s), c) ELSE s

\* s.rstrip(c)
RECURSIVE RStrip(_, _)
RStrip(s, c) ==
    IF s # <<>> /\ s[Len(s)] = c THEN RStrip(SubSeq(s, 1, Len(s) - 1), c) ELSE s

\* s.strip(c)
Strip(s, c) == RStrip(LStrip(s, c), c)

-----------------------------------------------------------------------------
(* sed -i 's#pattern#replacement#g' *)

\* one pattern character against one text character: '.' matches any character
\* of a sed basic regular expression, every other character of the model's
\* alphabet matches itself
SedCharMatches(p, c) == p = "." \/ p = c

\* whether the pattern matches the text at index i
SedMatchesAt(pattern, text, i) ==
    /\ i + Len(pattern) - 1 <= Len(text)
    /\ \A k \in 1..Len(pattern) : SedCharMatches(pattern[k], text[i + k - 1])

\* the g flag: every leftmost non-overlapping match, left to right
RECURSIVE SedFrom(_, _, _, _)
SedFrom(pattern, replacement, text, i) ==
    IF i > Len(text) THEN <<>>
    ELSE IF pattern # <<>> /\ SedMatchesAt(pattern, text, i)
         THEN replacement \o SedFrom(pattern, replacement, text, i + Len(pattern))
         ELSE <<text[i]>> \o SedFrom(pattern, replacement, text, i + 1)

SedSubstitute(pattern, replacement, text) == SedFrom(pattern, replacement, text, 1)

-----------------------------------------------------------------------------
(* Text constants of ab_update.py *)

\* "http://"
HttpScheme == <<"h", "t", "t", "p", ":", "/", "/">>
\* "file://"
FileScheme == <<"f", "i", "l", "e", ":", "/", "/">>
\* ".rawzst"
RawzstExt == <<".", "r", "a", "w", "z", "s", "t">>
\* "/"
Slash == <<"/">>
\* "_"
Underscore == <<"_">>
\* "_v"
VersionInfix == <<"_", "v">>
\* Python's None, for esp_partition_target_id; no partition id is spelled so
NoneId == "None"

-----------------------------------------------------------------------------
(* get_images_to_update *)

\* the id of the first partition of one disk whose type is "esp" (the inner
\* loop breaks there), NoneId when the disk has none
RECURSIVE FirstEspPartition(_)
FirstEspPartition(partitions) ==
    IF partitions = <<>> THEN NoneId
    ELSE IF Head(partitions).type = "esp" THEN Head(partitions).id
    ELSE FirstEspPartition(Tail(partitions))

\* the loop over the disks: the break leaves only the inner loop, so a later
\* disk with an ESP partition overwrites the id found on an earlier one
RECURSIVE EspPartitionTargetId(_, _)
EspPartitionTargetId(disks, found) ==
    IF disks = <<>> THEN found
    ELSE LET here == FirstEspPartition(Head(disks).partitions)
         IN  EspPartitionTargetId(Tail(disks), IF here = NoneId THEN found ELSE here)

\* ab_volume_pair_ids
AbVolumePairIds(doc) == {doc.volumePairs[i] : i \in 1..Len(doc.volumePairs)}

\* (url, deviceId) of every filesystem with a device id and an image source
FilesystemImages(filesystems) ==
    LET HasImage(fs) == fs.deviceId # "" /\ fs.sourceType \in {"image", "esp-image"}
        kept == SelectSeq(filesystems, HasImage)
    IN  [i \in 1..Len(kept) |-> <<kept[i].url, kept[i].deviceId>>]

\* (dataImage.url, dataDeviceId) then (hashImage.url, hashDeviceId) of every
\* verity filesystem
VerityImages(verity) ==
    [i \in 1..(2 * Len(verity)) |->
        IF i % 2 = 1
        THEN <<verity[(i + 1) \div 2].dataUrl, verity[(i + 1) \div 2].dataDeviceId>>
        ELSE <<verity[i \div 2].hashUrl, verity[i \div 2].hashDeviceId>>]

\* all_images
AllImages(doc) == FilesystemImages(doc.filesystems) \o VerityImages(doc.verityFilesystems)

\* whether a device may be updated: the ESP partition or an A/B volume pair
IsUpdatable(doc, device_id) ==
    \/ device_id = EspPartitionTargetId(doc.disks, NoneId)
    \/ device_id \in AbVolumePairIds(doc)

\* image_name of one URL
ImageName(url) ==
    IF StartsWith(url, HttpScheme)
    THEN SplitFirst(SplitLast(url, Slash), RawzstExt)
    ELSE RSplitInit(SplitFirst(SplitLast(url, Slash), RawzstExt), Underscore)

\* urls_to_update: (url, image_name) of every updatable image, in document order
get_images_to_update(doc) ==
    LET Updatable(img) == IsUpdatable(doc, img[2])
        kept == SelectSeq(AllImages(doc), Updatable)
    IN  [i \in 1..Len(kept) |-> <<kept[i][1], ImageName(kept[i][1])>>]

-----------------------------------------------------------------------------
(* update_host_config_images *)

\* host_directory
HostDirectory(env) ==
    IF env = "host" THEN <<"/">> ELSE <<"/", "h", "o", "s", "t", "/">>

\* new_url
NewUrl(image_name, ver, env, dest) ==
    FileScheme \o HostDirectory(env) \o Strip(dest, "/") \o Slash
        \o image_name \o VersionInfix \o ver \o RawzstExt

\* one sed -i 's#old#new#g' over the file: every line of the document that
\* holds text is rewritten (the URL lines of filesystems and verity
\* filesystems, and the free text elsewhere in the document)
SedDocument(pattern, replacement, doc) ==
    [doc EXCEPT
        !.filesystems = [i \in 1..Len(@) |->
            [@[i] EXCEPT !.url = SedSubstitute(pattern, replacement, @)]],
        !.verityFilesystems = [i \in 1..Len(@) |->
            [@[i] EXCEPT !.dataUrl = SedSubstitute(pattern, replacement, @),
                         !.hashUrl = SedSubstitute(pattern, replacement, @)]],
        !.other = SedSubstitute(pattern, replacement, @)]

\* the for loop over images_to_update: one sed per (old_url, image_name), each
\* on the file the previous one left
RECURSIVE ReplaceImageUrls(_, _, _, _, _)
ReplaceImageUrls(images, doc, ver, env, dest) ==
    IF images = <<>> THEN doc
    ELSE ReplaceImageUrls(
            Tail(images),
            SedDocument(Head(images)[1], NewUrl(Head(images)[2], ver, env, dest), doc),
            ver, env, dest)

\* sed -i 's#selfUpgrade: true#selfUpgrade: false#g': the line is rewritten
\* where it reads "selfUpgrade: true" and nowhere else
SedSelfUpgrade(doc) ==
    [doc EXCEPT !.selfUpgrade = IF @ = "true" THEN "false" ELSE @]

\* the document update_host_config_images leaves at trident_config, from the
\* document it read there
StagedDocument(doc, ver, env, dest) ==
    SedSelfUpgrade(ReplaceImageUrls(get_images_to_update(doc), doc, ver, env, dest))

-----------------------------------------------------------------------------
(* update_allowed_operations and add_logstream *)

\* allowed_operations
AllowedOperations(stage, finalize) ==
    (IF stage THEN <<"stage">> ELSE <<>>) \o (IF finalize THEN <<"finalize">> ELSE <<>>)

\* the same sed with a range that runs on through the trident section: the
\* selfUpgrade line goes with the lines replaced
SedAllowedOperationsWide(doc, stage, finalize) ==
    IF ~doc.allowedOperations.present THEN doc
    ELSE [doc EXCEPT !.allowedOperations.ops = AllowedOperations(stage, finalize),
                     !.selfUpgrade = "absent"]

\* sed -i '/allowedOperations:/,/hostConfiguration:/c\...': the lines from the
\* allowedOperations: line to the hostConfiguration: line are replaced by the new
\* list; a document without an allowedOperations: line is left as it is
SedAllowedOperations(doc, stage, finalize) ==
    IF ~doc.allowedOperations.present THEN doc
    ELSE [doc EXCEPT !.allowedOperations.ops = AllowedOperations(stage, finalize)]

\* "phonehome"
PhonehomeWord == <<"p", "h", "o", "n", "e", "h", "o", "m", "e">>
\* "logstream"
LogstreamWord == <<"l", "o", "g", "s", "t", "r", "e", "a", "m">>

\* s.replace(old, new): every non-overlapping occurrence, compared literally
RECURSIVE ReplaceFrom(_, _, _, _)
ReplaceFrom(s, old, new, i) ==
    IF i > Len(s) THEN <<>>
    ELSE IF OccursAt(s, old, i)
         THEN new \o ReplaceFrom(s, old, new, i + Len(old))
         ELSE <<s[i]>> \o ReplaceFrom(s, old, new, i + 1)

\* logstream_url
LogstreamUrl(phonehome) == ReplaceFrom(phonehome, PhonehomeWord, LogstreamWord, 1)

\* yaml.load(text, Loader=yaml.SafeLoader): the !image constructor is
\* registered on YamlSafeLoader, a subclass, and yaml.SafeLoader itself has no
\* constructor for the tag
SafeLoaderLoads(doc) == ~doc.imageTagged

\* yaml.load(text, Loader=YamlSafeLoader) after add_constructor("!image", ...)
YamlSafeLoaderLoads(doc) == TRUE

\* add_logstream: the document its sed writes (the logstream line appended
\* after the phonehome line) and whether the sed is issued; the
\* ConstructorError of yaml.load on a document with an !image node; the
\* KeyError of trident_config_dict["phonehome"] when the document has neither
\* key (an empty text stands for a missing key)
AddLogstreamResult(doc) ==
    IF ~SafeLoaderLoads(doc) THEN [raised |-> "ConstructorError", doc |-> doc, sed |-> FALSE]
    ELSE IF doc.logstream # <<>> THEN [raised |-> "none", doc |-> doc, sed |-> FALSE]
    ELSE IF doc.phonehome = <<>> THEN [raised |-> "KeyError", doc |-> doc, sed |-> FALSE]
    ELSE [raised |-> "none",
          doc |-> [doc EXCEPT !.logstream = LogstreamUrl(doc.phonehome)],
          sed |-> TRUE]

-----------------------------------------------------------------------------
(* Output of the engine: text as a sequence of tokens, a token being the text
   of a log line or the newline that ends it *)

Newline == "\n"
RebootMarker == "[INFO  trident::engine] Rebooting system"
StagedMarker == "[INFO  trident::engine] Staging of update 'AbUpdate' succeeded"
RerunMarker == "[DEBUG trident::engine::hooks] Running script fail-on-the-first-run-to-force-rerun with interpreter /usr/bin/python3"
OtherLine == "[INFO  trident] some other line"

\* text.strip(): the model's only whitespace is the newline
StripText(text) == Strip(text, Newline)

\* text.split("\n"): the lines, each the tokens between two newlines
RECURSIVE SplitLines(_)
SplitLines(text) ==
    LET i == FindFrom(text, <<Newline>>, 1)
    IN  IF i = 0 THEN <<text>>
        ELSE <<SubSeq(text, 1, i - 1)>> \o SplitLines(SubSeq(text, i + 1, Len(text)))

\* marker in lines
HasLine(lines, marker) == \E i \in 1..Len(lines) : lines[i] = <<marker>>

\* trident_output_lines
OutputLines(text) == SplitLines(StripText(text))

-----------------------------------------------------------------------------
(* trident_run and trident_run_command *)

MAX_RETRIES == 5

TRIDENT_EXECUTABLE_PATH == "/usr/bin/trident"
DOCKER_IMAGE_PATH == "/var/lib/trident/trident-container.tar.gz"
EXECUTE_TRIDENT_CONTAINER == "docker run --pull=never --rm --privileged ... trident/trident:latest"

\* "sudo setenforce 0": an enforcing host becomes permissive; on a host with
\* SELinux disabled the command fails and warn=True hides the failure
Setenforce0(mode) == IF mode = "Disabled" THEN mode ELSE "Permissive"

\* _reload_container_image without the test of result.ok: a failed docker load
\* goes unnoticed
ReloadContainerImageUnchecked(h, mode) ==
    IF ~h.imageExists
    THEN [raised |-> "missing", selinux |-> mode,
          commands |-> << <<"test -f", DOCKER_IMAGE_PATH>> >>]
    ELSE [raised |-> "none",
          selinux |-> Setenforce0(mode),
          commands |-> << <<"test -f", DOCKER_IMAGE_PATH>>,
                          <<"sudo setenforce 0">>,
                          <<"sudo docker load --input", DOCKER_IMAGE_PATH>> >>]

\* _reload_container_image on a host h (whether the image file exists,
\* whether docker load succeeds): the exception raised, the SELinux mode
\* left, the commands issued
ReloadContainerImage(h, mode) ==
    IF ~h.imageExists
    THEN [raised |-> "missing", selinux |-> mode,
          commands |-> << <<"test -f", DOCKER_IMAGE_PATH>> >>]
    ELSE [raised |-> IF h.loadOk THEN "none" ELSE "loadfailed",
          selinux |-> Setenforce0(mode),
          commands |-> << <<"test -f", DOCKER_IMAGE_PATH>>,
                          <<"sudo setenforce 0">>,
                          <<"sudo docker load --input", DOCKER_IMAGE_PATH>> >>]

\* _trident_command: how the engine is invoked, after loading the image when
\* the runtime is a container
TridentCommand(env, h, mode) ==
    IF env = "container"
    THEN LET r == ReloadContainerImage(h, mode)
         IN  [raised |-> r.raised, selinux |-> r.selinux, commands |-> r.commands,
              invocation |-> EXECUTE_TRIDENT_CONTAINER]
    ELSE [raised |-> "none", selinux |-> mode, commands |-> <<>>,
          invocation |-> TRIDENT_EXECUTABLE_PATH]

\* the engine command trident_run hands to connection.run
EngineCommand(invocation, command) == <<"sudo", invocation, command>>

\* trident_run with every exception of connection.run turned into a
\* CommandTimedOut without output
trident_run_masking(oc) ==
    IF oc.kind = "exit"
    THEN [raised |-> "none", value |-> <<oc.rc, oc.stdout, oc.stderr>>,
          args |-> <<>>]
    ELSE IF oc.kind = "timeout"
    THEN [raised |-> "CommandTimedOut", value |-> <<>>,
          args |-> oc.stdout \o oc.stderr]
    ELSE [raised |-> "CommandTimedOut", value |-> <<>>, args |-> <<>>]

\* what trident_run gives for one outcome of connection.run: the tuple it
\* returns, the CommandTimedOut it raises with the captured stdout + stderr,
\* or the exception of any other kind it re-raises; the outcomes "missing"
\* and "loadfailed" are the exceptions of _trident_command, raised before
\* connection.run is reached
trident_run(oc) ==
    IF oc.kind = "exit"
    THEN [raised |-> "none", value |-> <<oc.rc, oc.stdout, oc.stderr>>,
          args |-> <<>>]
    ELSE IF oc.kind = "timeout"
    THEN [raised |-> "CommandTimedOut", value |-> <<>>,
          args |-> oc.stdout \o oc.stderr]
    ELSE [raised |-> "Exception", value |-> <<>>, args |-> <<>>]

\* the exceptions of ab_update.py, with what each message carries of the last
\* engine run
UnpackError ==
    [type |-> "ValueError", message |-> "too many values to unpack (expected 2)",
     carries |-> {}]
TimedOutError ==
    [type |-> "Exception", message |-> "Trident run timed out", carries |-> {}]
ReconnectError ==
    [type |-> "Exception", message |-> "Maximum reconnection attempts exceeded.",
     carries |-> {}]
UnexpectedError ==
    [type |-> "NameError", message |-> "name 'output' is not defined",
     carries |-> {}]
AttemptsError ==
    [type |-> "Exception",
     message |-> "Maximum attempts exceeded. Trident was unable to successfully run after A/B update.",
     carries |-> {}]
TransportError ==
    [type |-> "Exception", message |-> "raised by connection.run", carries |-> {}]
ImageMissingError ==
    [type |-> "Exception", message |-> "Can not locate Docker image at /var/lib/trident/trident-container.tar.gz.",
     carries |-> {}]
LoadImageError ==
    [type |-> "Exception", message |-> "Unable to load Docker image for Trident.",
     carries |-> {}]
\* the exception trident_run lets through for an outcome that is neither a
\* result nor a timeout
RaisedError(oc) ==
    IF oc.kind = "missing" THEN ImageMissingError
    ELSE IF oc.kind = "loadfailed" THEN LoadImageError
    ELSE TransportError
MissingKeyError ==
    [type |-> "KeyError", message |-> "phonehome", carries |-> {}]
UnknownTagError ==
    [type |-> "ConstructorError",
     message |-> "could not determine a constructor for the tag '!image'",
     carries |-> {}]
NoError == [type |-> "none", message |-> "", carries |-> {}]

\* the reboot marker looked for anywhere in the captured text, not among its
\* lines
TimeoutMentionsReboot(args) == \E i \in 1..Len(args) : args[i] = RebootMarker

\* the timeout handler of trident_run_command: "".join(args), strip, split,
\* and the reboot marker among the lines
TimeoutHasReboot(args) == HasLine(OutputLines(args), RebootMarker)

\* the branch of the if/elif chain an unpacked (exit code, output) takes
Classify(trident_return_code, trident_output) ==
    LET lines == OutputLines(trident_output)
    IN  IF trident_return_code = 0 /\ HasLine(lines, StagedMarker) THEN "Success"
        ELSE IF trident_return_code = -1 /\ HasLine(lines, RebootMarker)
             THEN "RebootInProgress"
        ELSE IF trident_return_code # 0 /\ HasLine(lines, RerunMarker)
             THEN "IntentionalRetryableFailure"
        ELSE "HardFailure"

\* the reconnect loop: reach[k] tells whether the echo of attempt k succeeds;
\* the number of attempts made, and whether one succeeded (break) or the
\* loop ran out (else: raise)
ReconnectAttempts(reach) ==
    IF \E k \in 1..MAX_RETRIES : reach[k]
    THEN CHOOSE k \in 1..MAX_RETRIES : reach[k] /\ \A j \in 1..(k - 1) : ~reach[j]
    ELSE MAX_RETRIES

ReconnectSucceeded(reach) == \E k \in 1..MAX_RETRIES : reach[k]

\* a two-target assignment from a tuple succeeds for a tuple of two
UnpacksToPair(value) == Len(value) = 2

\* trident_run_command on one outcome of the engine run: whether it returns,
\* the exception it raises, the branch taken and the reconnect attempts made
trident_run_command(oc, reach) ==
    LET r == trident_run(oc)
    IN  IF r.raised = "CommandTimedOut"
        THEN IF TimeoutHasReboot(r.args)
             THEN [returns |-> TRUE, error |-> NoError,
                   branch |-> "RebootInProgress", reconnects |-> 0]
             ELSE [returns |-> FALSE, error |-> TimedOutError,
                   branch |-> "AmbiguousTimeout", reconnects |-> 0]
        ELSE IF r.raised # "none"
        THEN [returns |-> FALSE, error |-> RaisedError(oc),
              branch |-> "none", reconnects |-> 0]
        ELSE IF ~UnpacksToPair(r.value)
        THEN [returns |-> FALSE, error |-> UnpackError,
              branch |-> "none", reconnects |-> 0]
        ELSE LET taken == Classify(r.value[1], r.value[2])
             IN  IF taken \in {"Success", "RebootInProgress"}
                 THEN [returns |-> TRUE, error |-> NoError,
                       branch |-> taken, reconnects |-> 0]
                 ELSE IF taken = "IntentionalRetryableFailure"
                 THEN [returns |-> ReconnectSucceeded(reach),
                       error |-> IF ReconnectSucceeded(reach)
                                 THEN NoError ELSE ReconnectError,
                       branch |-> taken,
                       reconnects |-> ReconnectAttempts(reach)]
                 ELSE [returns |-> FALSE, error |-> UnexpectedError,
                       branch |-> taken, reconnects |-> 0]

\* the test that guards the finalize loop: if runtime_env == "container"
EntersFinalizeLoop(env, finalize, taken) == env = "container"

\* one attempt of the finalize loop of trigger_ab_update: TRUE when the
\* attempt breaks out of the loop, FALSE when its exception is caught
FinalizeAttemptSucceeds(oc) ==
    LET r == trident_run(oc)
    IN  /\ r.raised = "none"
        /\ UnpacksToPair(r.value)
        /\ r.value[1] = 0

-----------------------------------------------------------------------------
(* The documents and parameters the staging is checked on *)

\* "http://h/r.rawzst": an image served over HTTP
UrlHttp == HttpScheme \o <<"h", "/", "r">> \o RawzstExt
\* "file:///d/r_v2.rawzst": an image an earlier staging with version 2 named
UrlStaged == FileScheme \o <<"/", "d", "/", "r", "_", "v", "2">> \o RawzstExt
\* "file:///d/r.rawzst": a local image without a version suffix
UrlPlain == FileScheme \o <<"/", "d", "/", "r">> \o RawzstExt

Urls == {UrlHttp, UrlStaged, UrlPlain}

\* --version values: "2" and "1_0"
Versions == {<<"2">>, <<"1", "_", "0">>}

\* --destination-directory values: "/d/"
DestinationDirectories == {<<"/", "d", "/">>}

RuntimeEnvs == {"host", "container"}

\* storage.disks: one disk with an ESP partition, or one disk without
DiskLayouts ==
    { << [id |-> "disk0",
          partitions |-> << [id |-> "esp", type |-> "esp"],
                            [id |-> "root-a", type |-> "root"],
                            [id |-> "home", type |-> "linux-generic"] >>] >>,
      << [id |-> "disk0",
          partitions |-> << [id |-> "root-a", type |-> "root"],
                            [id |-> "home", type |-> "linux-generic"] >>] >> }

\* storage.abUpdate.volumePairs[].id
VolumePairIds == <<"root", "root-hash">>

\* storage.filesystems[] entries: an image on the ESP, on the A/B root, on the
\* home partition (no A/B pair), and a filesystem without a source
FilesystemEntries ==
    { [deviceId |-> "esp", sourceType |-> "esp-image", url |-> UrlHttp] }
    \cup { [deviceId |-> "root", sourceType |-> "image", url |-> u] : u \in Urls }
    \cup { [deviceId |-> "home", sourceType |-> "image", url |-> u] :
            u \in {UrlHttp, UrlStaged} }
    \cup { [deviceId |-> "home", sourceType |-> "new", url |-> <<>>] }

\* storage.verityFilesystems[] entries: the data device is the A/B root, the
\* hash device is an A/B pair or a partition outside every pair
VerityEntries ==
    { [dataDeviceId |-> "root", dataUrl |-> du, hashDeviceId |-> hd, hashUrl |-> UrlHttp] :
        du \in {UrlHttp, UrlStaged}, hd \in {"root-hash", "home"} }

\* sequences over S of length at most n
SeqsUpTo(S, n) == UNION { [1..k -> S] : k \in 0..n }

\* free text elsewhere in the document: none, or a line quoting the HTTP URL
OtherTexts == {<<>>, UrlHttp}

\* the scalar of the trident.selfUpgrade line: true, false, True (which YAML
\* reads as true as well), or "absent" when the document has no such line
SelfUpgradeValues == {"true", "false", "True", "absent"}

\* "http://n/phonehome"
PhonehomeUrl == HttpScheme \o <<"n", "/">> \o PhonehomeWord

\* the top of the documents of the model: the phonehome key on the first
\* line, then the allowedOperations list, then hostConfiguration, so that the
\* two seds on the top of the document touch these lines alone
TopOfDocument ==
    [allowedOperations |-> [present |-> TRUE, ops |-> <<"stage", "finalize">>],
     phonehome |-> PhonehomeUrl, logstream |-> <<>>, imageTagged |-> FALSE]

Documents ==
    { [disks |-> dl, volumePairs |-> VolumePairIds, filesystems |-> fs,
       verityFilesystems |-> vf, other |-> ot, selfUpgrade |-> su,
       allowedOperations |-> TopOfDocument.allowedOperations,
       phonehome |-> TopOfDocument.phonehome,
       logstream |-> TopOfDocument.logstream,
       imageTagged |-> TopOfDocument.imageTagged] :
        dl \in DiskLayouts,
        fs \in SeqsUpTo(FilesystemEntries, MaxEntries),
        vf \in SeqsUpTo(VerityEntries, 1),
        ot \in OtherTexts,
        su \in SelfUpgradeValues }

-----------------------------------------------------------------------------
(* The engine runs the orchestration is checked on *)

LogLines == {RebootMarker, StagedMarker, RerunMarker, OtherLine}

\* the text of complete lines
RECURSIVE TextOf(_)
TextOf(lines) ==
    IF lines = <<>> THEN <<>> ELSE <<Head(lines), Newline>> \o TextOf(Tail(lines))

\* stdout: up to MaxLogLines complete lines, or a line the run did not end
StdoutTexts ==
    { TextOf(ls) : ls \in SeqsUpTo(LogLines, MaxLogLines) } \cup { <<OtherLine>> }

\* stderr: nothing, or the reboot line
StderrTexts == { <<>>, <<RebootMarker, Newline>> }

ExitCodes == {0, -1, 2}

\* what connection.run can do for an engine run: return a result, raise
\* CommandTimedOut after 240 seconds, raise another exception
EngineOutcomes ==
    { [kind |-> "exit", rc |-> rc, stdout |-> so, stderr |-> se] :
        rc \in ExitCodes, so \in StdoutTexts, se \in StderrTexts }
    \cup { [kind |-> "timeout", rc |-> 0, stdout |-> so, stderr |-> se] :
            so \in StdoutTexts, se \in StderrTexts }
    \cup { [kind |-> "error", rc |-> 0, stdout |-> <<>>, stderr |-> <<>>] }

\* the same for the runs of the finalize loop, which reads the exit code
\* alone: the output is left empty
FinalizeOutcomes ==
    { oc \in EngineOutcomes : oc.stderr = <<>> /\ oc.stdout = <<>> }

NoOutcome == [kind |-> "none", rc |-> 0, stdout |-> <<>>, stderr |-> <<>>]

\* the outcome of a trident_run that _trident_command ended with an exception
PrepOutcome(kind) == [kind |-> kind, rc |-> 0, stdout |-> <<>>, stderr |-> <<>>]

\* the host as a trident_run finds it: whether the container image file
\* exists, whether docker load succeeds (it cannot without the file)
HostStates == { h \in [imageExists : BOOLEAN, loadOk : BOOLEAN] :
                    h.loadOk => h.imageExists }

SelinuxModes == {"Enforcing", "Permissive"}

\* the arguments of the two engine runs: the staging run names the config,
\* the runs of the finalize loop do not
StageRunArguments == "run -v trace -c {trident_config}"
FinalizeRunArguments == "run"

NoRun == [host |-> [imageExists |-> FALSE, loadOk |-> FALSE],
          commands |-> <<>>, engine |-> <<>>]

\* one call of trident_run on a host h in SELinux mode `mode`: the commands
\* issued before the engine, the engine command if it is reached, the
\* outcomes the call can have, the SELinux mode left
TridentRunCall(env, h, mode, arguments, outcomes) ==
    LET prep == TridentCommand(env, h, mode)
    IN  [selinux |-> prep.selinux,
         sent |-> prep.raised = "none",
         run |-> [host |-> h, commands |-> prep.commands,
                  engine |-> IF prep.raised = "none"
                             THEN EngineCommand(prep.invocation, arguments)
                             ELSE <<>>],
         outcomes |-> IF prep.raised = "none" THEN outcomes
                      ELSE {PrepOutcome(prep.raised)}]

\* the outcomes of the reachability check of each reconnect attempt
ReachChoices(oc) ==
    IF trident_run_command(oc, [k \in 1..MAX_RETRIES |-> FALSE]).reconnects > 0
    THEN [1..MAX_RETRIES -> BOOLEAN]
    ELSE { [k \in 1..MAX_RETRIES |-> TRUE] }

\* the documents the orchestration is run on: the root image over HTTP, with
\* and without an allowedOperations list, with and without !image nodes, and
\* with neither a phonehome nor a logstream key, a phonehome key, or both
OrchestrationDocuments ==
    { [disks |-> CHOOSE dl \in DiskLayouts : Len(dl[1].partitions) = 3,
       volumePairs |-> VolumePairIds,
       filesystems |-> << [deviceId |-> "root", sourceType |-> "image", url |-> UrlHttp] >>,
       verityFilesystems |-> <<>>, other |-> <<>>, selfUpgrade |-> "true",
       allowedOperations |-> [present |-> ap, ops |-> IF ap THEN <<"stage">> ELSE <<>>],
       phonehome |-> pl[1], logstream |-> pl[2], imageTagged |-> tg] :
        ap \in BOOLEAN, tg \in BOOLEAN,
        pl \in { <<(<<>>), (<<>>)>>, <<PhonehomeUrl, (<<>>)>>,
                 <<PhonehomeUrl, LogstreamUrl(PhonehomeUrl)>> } }

\* the steps whose sed commands the host may refuse (a read-only or missing
\* file, a file the user may not write): none, or one step the run issues
FaultySteps(stage) ==
    {"none", "operations", "logstream"} \cup (IF stage THEN {"images"} ELSE {})

-----------------------------------------------------------------------------
(* Staging a document, possibly several times in a row *)

InitStage ==
    /\ localConfig \in { d \in Documents :
                            Len(d.filesystems) + Len(d.verityFilesystems) <= MaxEntries }
    /\ rwConfigExists \in BOOLEAN
    /\ rwConfig = localConfig
    /\ inputConfig = localConfig
    /\ prevConfig = localConfig
    /\ nStaged = 0
    /\ version \in Versions
    /\ runtime_env \in RuntimeEnvs
    /\ destination_directory \in DestinationDirectories
    /\ stage_ab_update = TRUE
    /\ finalize_ab_update = FALSE
    /\ pc = "staging"
    /\ firstOutcome = NoOutcome
    /\ lastOutcome = NoOutcome
    /\ branch = "none"
    /\ reconnects = 0
    /\ attempt = 0
    /\ error = NoError
    /\ selinux = "Enforcing"
    /\ selinuxAtStart = "Enforcing"
    /\ engineCommands = 0
    /\ lastRun = NoRun
    /\ openConnections = 1
    /\ faulty = "none"
    /\ issued = <<>>
    /\ SideIdle

\* what update_host_config_images does to the host: copy the local config
\* into place when no file is at trident_config, read the file, rewrite the
\* URLs, rewrite selfUpgrade
StageUpdate ==
    /\ LET read == IF rwConfigExists THEN rwConfig ELSE localConfig
       IN  /\ prevConfig' = read
           /\ rwConfig' = IF faulty = "images" THEN read
                          ELSE StagedDocument(read, version, runtime_env,
                                              destination_directory)
    /\ rwConfigExists' = TRUE
    /\ nStaged' = nStaged + 1
    /\ UNCHANGED <<localConfig, inputConfig>>

\* update_host_config_images, called again on the document it wrote
UpdateHostConfigImages ==
    /\ pc = "staging"
    /\ nStaged < MaxStage
    /\ StageUpdate
    /\ UNCHANGED <<paramVars, runVars, hostVars, issued, sideVars>>

NextStage == UpdateHostConfigImages

SpecStage == InitStage /\ [][NextStage]_vars

-----------------------------------------------------------------------------
(* trigger_ab_update *)

Init ==
    /\ localConfig \in OrchestrationDocuments
    /\ rwConfigExists = TRUE
    /\ rwConfig = localConfig
    /\ inputConfig = localConfig
    /\ prevConfig = localConfig
    /\ nStaged = 0
    /\ version = <<"2">>
    /\ runtime_env \in RuntimeEnvs
    /\ destination_directory \in DestinationDirectories
    /\ stage_ab_update \in BOOLEAN
    /\ finalize_ab_update \in BOOLEAN
    /\ pc = "start"
    /\ firstOutcome = NoOutcome
    /\ lastOutcome = NoOutcome
    /\ branch = "none"
    /\ reconnects = 0
    /\ attempt = 0
    /\ error = NoError
    /\ selinux \in SelinuxModes
    /\ selinuxAtStart = selinux
    /\ engineCommands = 0
    /\ lastRun = NoRun
    /\ openConnections = 0
    /\ faulty \in FaultySteps(stage_ab_update)
    /\ issued = <<>>
    /\ SideIdle

\* a step that runs no trident_run; the connection trigger_ab_update creates
\* first is in use from its first command on (openConnections' = 1)
HostUnchanged ==
    UNCHANGED <<selinux, selinuxAtStart, engineCommands, lastRun, faulty, sideVars>>

\* if stage_ab_update: update_host_config_images(...)
TriggerUpdateHostConfigImages ==
    /\ pc = "start"
    /\ stage_ab_update
    /\ StageUpdate
    /\ pc' = "images"
    /\ openConnections' = 1
    /\ issued' = Append(issued, "images")
    /\ HostUnchanged
    /\ UNCHANGED <<paramVars, firstOutcome, branch, reconnects, attempt, lastOutcome, error>>

\* update_allowed_operations(...)
UpdateAllowedOperations ==
    /\ \/ pc = "images"
       \/ pc = "start" /\ ~stage_ab_update
    /\ rwConfig' = IF faulty = "operations" THEN rwConfig
                   ELSE SedAllowedOperations(rwConfig, stage_ab_update,
                                             finalize_ab_update)
    /\ pc' = "operations"
    /\ openConnections' = 1
    /\ issued' = Append(issued, "operations")
    /\ HostUnchanged
    /\ UNCHANGED <<rwConfigExists, localConfig, inputConfig, prevConfig, nStaged,
                   paramVars, firstOutcome, branch, reconnects, attempt, lastOutcome, error>>

\* add_logstream(...)
AddLogstream ==
    /\ pc = "operations"
    /\ LET r == AddLogstreamResult(rwConfig)
       IN  /\ rwConfig' = IF faulty = "logstream" THEN rwConfig ELSE r.doc
           /\ pc' = IF r.raised = "none" THEN "logstream" ELSE "raised"
           /\ error' = IF r.raised = "none" THEN error
                       ELSE IF r.raised = "KeyError" THEN MissingKeyError
                       ELSE UnknownTagError
           /\ issued' = IF r.sed THEN Append(issued, "logstream") ELSE issued
    /\ HostUnchanged
    /\ UNCHANGED <<rwConfigExists, localConfig, inputConfig, prevConfig, nStaged,
                   paramVars, firstOutcome, branch, reconnects, attempt, lastOutcome,
                   openConnections>>

\* the engine run placed ahead of the configuration edits
RunReadyEarly == pc \in {"start", "logstream"}

\* the engine run follows add_logstream
RunReady == pc = "logstream"

\* trident_run_command(...), then connection.close() and the test of
\* runtime_env that enters the finalize loop; an exception of
\* trident_run_command leaves trigger_ab_update before connection.close()
TridentRunCommand ==
    /\ RunReady
    /\ \E h \in HostStates :
          LET call == TridentRunCall(runtime_env, h, selinux, StageRunArguments,
                                     EngineOutcomes)
          IN  \E oc \in call.outcomes : \E reach \in ReachChoices(oc) :
                LET r == trident_run_command(oc, reach)
                IN  /\ firstOutcome' = oc
                    /\ lastOutcome' = oc
                    /\ branch' = r.branch
                    /\ reconnects' = r.reconnects
                    /\ error' = r.error
                    /\ pc' = IF ~r.returns THEN "raised"
                             ELSE IF EntersFinalizeLoop(runtime_env, finalize_ab_update, r.branch)
                             THEN "finalize"
                             ELSE "returned"
                    /\ openConnections' = IF r.returns THEN openConnections - 1
                                          ELSE openConnections
                    /\ selinux' = call.selinux
                    /\ lastRun' = call.run
                    /\ engineCommands' = engineCommands + (IF call.sent THEN 1 ELSE 0)
                    /\ issued' = IF call.sent THEN Append(issued, "run") ELSE issued
    /\ UNCHANGED <<stageVars, paramVars, attempt, selinuxAtStart, faulty, sideVars>>

\* one iteration of the finalize loop: a fresh connection, trident_run of
\* "run", break on exit code 0; every exception is caught, the connection is
\* closed in the finally clause, and the loop's else raises after the last
\* iteration
FinalizeAttempt ==
    /\ pc = "finalize"
    /\ attempt < MAX_RETRIES
    /\ \E h \in HostStates :
          LET call == TridentRunCall(runtime_env, h, selinux, FinalizeRunArguments,
                                     FinalizeOutcomes)
          IN  \E oc \in call.outcomes :
                /\ lastOutcome' = oc
                /\ attempt' = attempt + 1
                /\ IF FinalizeAttemptSucceeds(oc)
                   THEN pc' = "returned" /\ error' = error
                   ELSE IF attempt + 1 = MAX_RETRIES
                   THEN pc' = "raised" /\ error' = AttemptsError
                   ELSE pc' = "finalize" /\ error' = error
                /\ selinux' = call.selinux
                /\ lastRun' = call.run
                /\ engineCommands' = engineCommands + (IF call.sent THEN 1 ELSE 0)
                /\ issued' = IF call.sent THEN Append(issued, "run") ELSE issued
    /\ openConnections' = (openConnections + 1) - 1
    /\ UNCHANGED <<stageVars, paramVars, firstOutcome, branch, reconnects,
                   selinuxAtStart, faulty, sideVars>>

Next ==
    \/ TriggerUpdateHostConfigImages
    \/ UpdateAllowedOperations
    \/ AddLogstream
    \/ TridentRunCommand
    \/ FinalizeAttempt

Spec == Init /\ [][Next]_vars

-----------------------------------------------------------------------------
(* The helpers outside ab_update.py run on their own; the state of
   trigger_ab_update is then at rest *)

MainIdle ==
    /\ localConfig = CHOOSE d \in OrchestrationDocuments : TRUE
    /\ rwConfigExists = TRUE
    /\ rwConfig = localConfig
    /\ inputConfig = localConfig
    /\ prevConfig = localConfig
    /\ nStaged = 0
    /\ version = <<"2">>
    /\ runtime_env = "host"
    /\ destination_directory = <<"/", "d", "/">>
    /\ stage_ab_update = FALSE
    /\ finalize_ab_update = FALSE
    /\ pc = "idle"
    /\ firstOutcome = NoOutcome
    /\ lastOutcome = NoOutcome
    /\ branch = "none"
    /\ reconnects = 0
    /\ attempt = 0
    /\ error = NoError
    /\ selinux = "Enforcing"
    /\ selinuxAtStart = "Enforcing"
    /\ engineCommands = 0
    /\ lastRun = NoRun
    /\ openConnections = 0
    /\ faulty = "none"
    /\ issued = <<>>

-----------------------------------------------------------------------------
(* trigger_rebuild_raid: e2e_tests/helpers/rebuild_raid.py and
   tests/e2e_tests/helpers/rebuild_raid.py *)

\* the two copies of the helper in the repository
RaidVariants == {"e2e_tests", "tests"}

\* --trident-config values: paths other than LOCAL_TRIDENT_CONFIG_PATH
RaidConfigPaths == {"/var/lib/trident/config.yaml", "/tmp/rebuild/config.yaml"}

\* the engine command of trident_rebuild_raid, word by word: the copy under
\* e2e_tests passes -c and the path to connection.run itself, the copy under
\* tests passes "rebuild-raid -v trace" to trident_run
RebuildRaidCommand(variant, invocation, trident_config) ==
    IF variant = "e2e_tests"
    THEN <<"sudo", TRIDENT_EXECUTABLE_PATH, "rebuild-raid", "-v", "trace",
           "-c", trident_config>>
    ELSE <<"sudo", invocation, "rebuild-raid", "-v", "trace">>

\* what the engine command is preceded by: _trident_command for the copy that
\* goes through trident_run, nothing for the other
RebuildRaidPreparation(variant, env, h, mode) ==
    IF variant = "tests" THEN TridentCommand(env, h, mode)
    ELSE TridentCommand("host", h, mode)

\* the exception trident_rebuild_raid ends with for an outcome of the engine
\* command, "none" when it returns
RebuildRaidRaises(oc) ==
    IF oc.kind = "exit" THEN (IF oc.rc = 0 THEN "none" ELSE "Exception")
    ELSE IF oc.kind = "timeout" THEN "CommandTimedOut"
    ELSE "Exception"

\* what connection.run can do for the engine command
RaidOutcomes == EngineOutcomes

InitRaid ==
    /\ MainIdle
    /\ raid \in { [pc |-> "start", variant |-> v, trident_config |-> c,
                   runtime_env |-> e, fileExists |-> x, edited |-> FALSE,
                   command |-> <<>>, outcome |-> NoOutcome, raised |-> "none"] :
                    v \in RaidVariants, c \in RaidConfigPaths,
                    e \in RuntimeEnvs, x \in BOOLEAN }
    /\ sshProcess = Idle /\ depends = Idle /\ flash = Idle
    /\ patchRun = Idle /\ sshWait = Idle /\ uefi = Idle

notRaid == <<mainVars, sshProcess, depends, flash, patchRun, sshWait, uefi>>

\* copy_host_config: cp of the local config when no file is at trident_config
CopyHostConfig ==
    /\ raid.pc = "start"
    /\ raid' = [raid EXCEPT !.pc = "copied", !.fileExists = TRUE]
    /\ UNCHANGED notRaid

\* trident_rebuild_raid: the copy under tests edits the file at
\* trident_config first; then the engine command, and the test of its exit code
TridentRebuildRaid ==
    /\ raid.pc = "copied"
    /\ \E h \in HostStates :
          LET prep == RebuildRaidPreparation(raid.variant, raid.runtime_env, h, "Enforcing")
          IN  \E oc \in (IF prep.raised = "none" THEN RaidOutcomes
                         ELSE {PrepOutcome(prep.raised)}) :
                raid' = [raid EXCEPT
                    !.edited = (raid.variant = "tests"),
                    !.command = IF prep.raised = "none"
                                THEN RebuildRaidCommand(raid.variant, prep.invocation,
                                                        raid.trident_config)
                                ELSE <<>>,
                    !.outcome = oc,
                    !.raised = RebuildRaidRaises(oc),
                    !.pc = IF RebuildRaidRaises(oc) = "none" THEN "returned" ELSE "raised"]
    /\ UNCHANGED notRaid

NextRaid == CopyHostConfig \/ TridentRebuildRaid

SpecRaid == InitRaid /\ [][NextRaid]_vars

-----------------------------------------------------------------------------
(* Claims about the staging rewrite *)

\* the filesystems[] and verityFilesystems[] entries of the document that was
\* read whose device is neither the ESP partition nor an A/B volume pair are
\* the same in the document that was written
UnrelatedEntriesKept(before, after) ==
    /\ Len(after.filesystems) = Len(before.filesystems)
    /\ \A i \in 1..Len(before.filesystems) :
          ~IsUpdatable(before, before.filesystems[i].deviceId)
              => after.filesystems[i] = before.filesystems[i]
    /\ Len(after.verityFilesystems) = Len(before.verityFilesystems)
    /\ \A i \in 1..Len(before.verityFilesystems) :
          LET b == before.verityFilesystems[i]
              a == after.verityFilesystems[i]
          IN  /\ a.dataDeviceId = b.dataDeviceId
              /\ a.hashDeviceId = b.hashDeviceId
              /\ ~IsUpdatable(before, b.dataDeviceId) => a.dataUrl = b.dataUrl
              /\ ~IsUpdatable(before, b.hashDeviceId) => a.hashUrl = b.hashUrl

\* the sections of the document outside filesystems, verity filesystems and
\* trident are the same
OtherSectionsKept(before, after) ==
    /\ after.disks = before.disks
    /\ after.volumePairs = before.volumePairs
    /\ after.other = before.other

\* C1: staging a document a second time with the same version, destination
\* directory and runtime environment leaves the document the first staging
\* wrote: no URL gains a second _v<version> suffix.
C1_StagingIdempotent ==
    nStaged >= 2 => rwConfig = prevConfig

\* C2: staging changes nothing outside its contract: every filesystem and
\* verity entry on a device that is neither the ESP partition nor an A/B
\* volume pair, and every other section, is as in the document that was read.
C2_StagingFrame ==
    nStaged >= 1 =>
        /\ UnrelatedEntriesKept(prevConfig, rwConfig)
        /\ OtherSectionsKept(prevConfig, rwConfig)

\* C3: whatever selfUpgrade was in the document read (true, false, absent),
\* the staged document has trident.selfUpgrade: false.
C3_SelfUpgradeFalse ==
    nStaged >= 1 => rwConfig.selfUpgrade = "false"

-----------------------------------------------------------------------------
(* Claims about the outcome of an engine run *)

\* the combined output of an engine run has the marker as a complete line:
\* the marker token stands between two newlines or at an end of the text
MarkerLineIn(oc, marker) ==
    LET text == oc.stdout \o oc.stderr
    IN  \E i \in 1..Len(text) :
            /\ text[i] = marker
            /\ i = 1 \/ text[i - 1] = Newline
            /\ i = Len(text) \/ text[i + 1] = Newline

\* engine runs trident_run_command has dispatched: its one call of trident_run
StageRunsDispatched == IF firstOutcome.kind = "none" THEN 0 ELSE 1

\* the run of trident_run_command came back with an exit code, without and
\* with a timeout
RunExited == firstOutcome.kind = "exit"
RunTimedOut == firstOutcome.kind = "timeout"

\* trident_run_command returned to trigger_ab_update
CommandReturned ==
    \/ pc = "returned"
    \/ pc = "finalize"
    \/ pc = "raised" /\ attempt > 0

Classifications ==
    {"Success", "RebootInProgress", "AmbiguousTimeout",
     "IntentionalRetryableFailure", "HardFailure"}

\* C4: every (exit code, timed-out flag, log text) of an engine run reaches one
\* of the five classifications, and trident_run_command fails with no error
\* other than the exception that reports the classification.
C4_ClassifierTotal ==
    (RunExited \/ RunTimedOut) =>
        /\ branch \in Classifications
        /\ attempt = 0 => error.type \in {"none", "Exception"}

\* C5: an engine run with a non-zero exit code and the forced-rerun line is
\* followed by at most MAX_RETRIES reconnect attempts, and when the command
\* fails it has made exactly MAX_RETRIES attempts and raises the error of the
\* exhausted budget.
C5_RetryBounded ==
    (RunExited /\ firstOutcome.rc # 0 /\ MarkerLineIn(firstOutcome, RerunMarker)) =>
        /\ branch = "IntentionalRetryableFailure"
        /\ reconnects <= MAX_RETRIES
        /\ ~CommandReturned => reconnects = MAX_RETRIES /\ error = ReconnectError

\* C6: an engine run with exit code -1 and the reboot line is RebootInProgress:
\* trident_run_command returns and has made no reconnect attempt.
C6_RebootExitReturns ==
    (RunExited /\ firstOutcome.rc = -1 /\ MarkerLineIn(firstOutcome, RebootMarker)) =>
        /\ branch = "RebootInProgress"
        /\ CommandReturned
        /\ reconnects = 0

\* C7: after an engine run with a non-zero exit code and the forced-rerun line
\* the controller reconnects and, once the host is reachable, issues the same
\* engine run a second time.
C7_RetryReissuesRun ==
    (RunExited /\ firstOutcome.rc # 0 /\ MarkerLineIn(firstOutcome, RerunMarker)) =>
        /\ reconnects >= 1
        /\ CommandReturned => StageRunsDispatched = 2

C9_SuccessIffStaged ==
    RunExited =>
        IF firstOutcome.rc = 0 /\ MarkerLineIn(firstOutcome, StagedMarker)
        THEN branch = "Success" /\ CommandReturned /\ reconnects = 0
        ELSE branch # "Success"

\* C10: the error of a failed orchestration carries the exit code and the
\* output of the last engine run.
C10_FailureCarriesEvidence ==
    (pc = "raised" /\ lastOutcome.kind = "exit") =>
        {"exit_code", "output"} \subseteq error.carries

-----------------------------------------------------------------------------
(* Claims about the finalize phase, connections and the container runtime *)

\* the latest trident_run handed an engine command to connection.run
EngineSent == lastRun.engine # <<>>

\* the latest trident_run issued "sudo setenforce 0"
SelinuxRelaxed ==
    \E i \in 1..Len(lastRun.commands) : lastRun.commands[i] = <<"sudo setenforce 0">>

C13_ConnectionsClosed ==
    pc \in {"returned", "raised"} => openConnections = 0

\* C14: after a trident_run that switched SELinux enforcement off, the host is
\* back in the mode it had before, also when the image load or the engine
\* command failed.
C14_SelinuxRestored ==
    SelinuxRelaxed => selinux = selinuxAtStart

\* C15: with the container runtime the engine command is sent only after the
\* image file was found and docker load succeeded, otherwise trident_run
\* raises and sends nothing; with the host runtime no check or load is issued
\* and the engine binary is run under sudo.
C15_ContainerImageLoadedFirst ==
    lastOutcome.kind # "none" =>
        IF runtime_env = "container"
        THEN IF lastRun.host.imageExists /\ lastRun.host.loadOk
             THEN /\ EngineSent
                  /\ lastRun.engine[1] = "sudo"
                  /\ lastRun.engine[2] = EXECUTE_TRIDENT_CONTAINER
             ELSE /\ ~EngineSent
                  /\ lastOutcome.kind \in {"missing", "loadfailed"}
                  /\ attempt = 0 =>
                        /\ pc = "raised"
                        /\ error \in {ImageMissingError, LoadImageError}
                        /\ engineCommands = 0
        ELSE /\ lastRun.commands = <<>>
             /\ lastRun.engine = <<"sudo", TRIDENT_EXECUTABLE_PATH, StageRunArguments>>

\* C15 witness: a container run on a host where the image file exists and
\* docker load fails: trident_run_command raised, no engine command was sent
C15_Witness ==
    /\ runtime_env = "container"
    /\ lastRun.host.imageExists
    /\ ~lastRun.host.loadOk
    /\ lastOutcome.kind = "loadfailed"
    /\ pc = "raised"
    /\ engineCommands = 0

-----------------------------------------------------------------------------
(* Claims about the configuration edits of trigger_ab_update *)

\* an engine run has been dispatched
RunDispatched == \E i \in 1..Len(issued) : issued[i] = "run"

\* the index in `issued` of the first engine run
FirstRunIndex == CHOOSE i \in 1..Len(issued) :
                    issued[i] = "run" /\ \A j \in 1..(i - 1) : issued[j] # "run"

ConfigEdits == {"images", "operations", "logstream"}

\* C16: the allowedOperations list in the configuration the engine is run on
\* is the requested subset, stage before finalize, whatever the list was.
C16_AllowedOperationsWritten ==
    RunDispatched =>
        /\ rwConfig.allowedOperations.present
        /\ rwConfig.allowedOperations.ops =
              (IF stage_ab_update THEN <<"stage">> ELSE <<>>)
                  \o (IF finalize_ab_update THEN <<"finalize">> ELSE <<>>)

\* C17: without stage_ab_update no image URL and no selfUpgrade value of the
\* remote configuration is changed, before the engine run or after it.
C17_NoStageNoTransform ==
    ~stage_ab_update =>
        /\ nStaged = 0
        /\ rwConfig.filesystems = inputConfig.filesystems
        /\ rwConfig.verityFilesystems = inputConfig.verityFilesystems
        /\ rwConfig.selfUpgrade = inputConfig.selfUpgrade

\* C17 witness: a finalize-only orchestration whose engine run was dispatched
\* on a document whose allowedOperations list was rewritten
C17_Witness ==
    /\ ~stage_ab_update
    /\ finalize_ab_update
    /\ RunDispatched
    /\ rwConfig.allowedOperations # inputConfig.allowedOperations

\* C18: the engine run is dispatched after every configuration edit: the
\* allowed operations, and with stage_ab_update the image URLs and
\* selfUpgrade, were edited before the first engine run, and no edit is issued
\* after it.
C18_EditsBeforeRun ==
    RunDispatched =>
        /\ \E i \in 1..(FirstRunIndex - 1) : issued[i] = "operations"
        /\ stage_ab_update => \E i \in 1..(FirstRunIndex - 1) : issued[i] = "images"
        /\ \A j \in FirstRunIndex..Len(issued) : issued[j] \notin ConfigEdits

\* C18 witness: images, allowed operations and logstream were edited, the
\* engine ran, and the finalize loop ran the engine again
C18_Witness ==
    /\ issued = <<"images", "operations", "logstream", "run", "run">>
    /\ attempt >= 1

-----------------------------------------------------------------------------
(* Claims about the staged URL and the volume pairs *)

Digits == {"0", "1", "2", "3", "4", "5", "6", "7", "8", "9"}

\* the base image name as the specification has it: the last path segment
\* without the extension and without a _v<N> suffix
BaseImageName(url) ==
    LET segment == SplitFirst(SplitLast(url, Slash), RawzstExt)
        i == RFindFrom(segment, VersionInfix, Len(segment))
        number == SubSeq(segment, i + Len(VersionInfix), Len(segment))
    IN  IF i > 0 /\ number # <<>> /\ \A k \in 1..Len(number) : number[k] \in Digits
        THEN SubSeq(segment, 1, i - 1)
        ELSE segment

\* the staged URL as the specification has it
ExpectedUrl(url, ver, env, dest) ==
    FileScheme \o (IF env = "host" THEN <<"/">> ELSE <<"/", "h", "o", "s", "t", "/">>)
        \o Strip(dest, "/") \o Slash \o BaseImageName(url)
        \o VersionInfix \o ver \o RawzstExt

\* C19: every image of a filesystem on the ESP partition or an A/B volume
\* pair is staged as file:// + base directory + destination directory without
\* its outer slashes + / + base image name + _v<version> + extension.
C19_StagedUrlFormat ==
    nStaged >= 1 =>
        /\ \A i \in 1..Len(prevConfig.filesystems) :
              LET fs == prevConfig.filesystems[i]
              IN  (fs.sourceType \in {"image", "esp-image"}
                        /\ IsUpdatable(prevConfig, fs.deviceId)) =>
                    rwConfig.filesystems[i].url =
                        ExpectedUrl(fs.url, version, runtime_env, destination_directory)
        /\ \A i \in 1..Len(prevConfig.verityFilesystems) :
              LET vf == prevConfig.verityFilesystems[i]
              IN  /\ IsUpdatable(prevConfig, vf.dataDeviceId) =>
                        rwConfig.verityFilesystems[i].dataUrl =
                            ExpectedUrl(vf.dataUrl, version, runtime_env, destination_directory)
                  /\ IsUpdatable(prevConfig, vf.hashDeviceId) =>
                        rwConfig.verityFilesystems[i].hashUrl =
                            ExpectedUrl(vf.hashUrl, version, runtime_env, destination_directory)

\* an A/B volume pair id of the document that no filesystem with an image and
\* no verity data or hash device carries
HasUnmatchedPair(doc) ==
    \E p \in 1..Len(doc.volumePairs) :
        \A k \in 1..Len(AllImages(doc)) : AllImages(doc)[k][2] # doc.volumePairs[p]

\* C20: staging a configuration with an A/B volume pair that has no
\* filesystem or verity image raises an error, and the engine is not run.
C20_UnmatchedPairRejected ==
    (nStaged >= 1 /\ HasUnmatchedPair(prevConfig)) =>
        /\ pc = "raised"
        /\ engineCommands = 0

-----------------------------------------------------------------------------
(* Claims about errors of the transport, of remote steps and of the parser *)

StepFailed == \E i \in 1..Len(issued) : issued[i] = faulty

\* C22: when a remote step of the orchestration fails, the run raises and no
\* engine command is sent.
C22_NoFailureSwallowed ==
    StepFailed =>
        /\ ~RunDispatched
        /\ pc \in {"returned", "finalize"} => FALSE

\* C23: a document with !image nodes makes no parsing step fail with an
\* unknown-tag error.
C23_ImageTagAccepted ==
    rwConfig.imageTagged =>
        /\ YamlSafeLoaderLoads(rwConfig)
        /\ error.type # "ConstructorError"

-----------------------------------------------------------------------------
(* Claims about the other helpers *)

\* C24: a helper that prepared the configuration at a path of the caller's
\* choice runs the engine with -c and that path on its command line.
C24_ConfigPathPassed ==
    raid.pc \in {"returned", "raised"} /\ raid.command # <<>> =>
        \E i \in 1..(Len(raid.command) - 1) :
            /\ raid.command[i] = "-c"
            /\ raid.command[i + 1] = raid.trident_config

-----------------------------------------------------------------------------
(* SshProcess.wait_result (tests/functional_tests/ssh_node.py) *)

\* the longest timeout a caller passes, and how often wait_result is called
MaxWait == 2
MaxCalls == 2

\* when the remote process exits: after so many seconds
ExitDelays == 0..(MaxWait + 1)
WaitTimeouts == 0..MaxWait
ExitStatuses == {0, 1, 2}
NoneCode == -1
ExpectedExitCodes == {NoneCode, 0, 1}

\* self._result = None
NoResult == [set |-> FALSE]

\* status_event.wait(timeout): the event is set when the process has exited
StatusEventWait(delay, timeout) == delay <= timeout

\* what the reader thread collected: everything the process wrote when it
\* exited, what it wrote before the channel was closed otherwise
ReaderOutputs(output, completed) ==
    IF completed THEN {output}
    ELSE { SubSeq(output, 1, n) : n \in 0..Len(output) }

SshExecutableResultAlwaysCompleted(stdout, status, completed) ==
    [set |-> TRUE, stdout |-> stdout, exit_code |-> status, is_timeout |-> FALSE]

\* the result built at lines 164-189
SshExecutableResult(stdout, status, completed) ==
    [set |-> TRUE, stdout |-> stdout,
     exit_code |-> IF completed THEN status ELSE 1,
     is_timeout |-> ~completed]

\* assert_exit_code: the assertion fails when the code is not the expected one
AssertExitCodeFails(result, expected) ==
    expected # NoneCode /\ result.exit_code # expected

InitSsh ==
    /\ MainIdle
    /\ sshProcess \in { [pc |-> "started", delay |-> d, status |-> s, output |-> o,
                         channelClosed |-> FALSE, waits |-> <<>>, calls |-> 0,
                         result |-> NoResult, returned |-> <<>>, raised |-> FALSE] :
                          d \in ExitDelays, s \in ExitStatuses, o \in StdoutTexts }
    /\ raid = Idle /\ depends = Idle /\ flash = Idle
    /\ patchRun = Idle /\ sshWait = Idle /\ uefi = Idle

notSsh == <<mainVars, raid, depends, flash, patchRun, sshWait, uefi>>

\* wait_result: the first call waits on the channel, builds the result and
\* caches it; every call checks the expected exit code and returns the result
WaitResult ==
    /\ sshProcess.pc # "idle"
    /\ sshProcess.calls < MaxCalls
    /\ \E timeout \in WaitTimeouts, expected \in ExpectedExitCodes :
        LET first == ~sshProcess.result.set
            completed == StatusEventWait(sshProcess.delay, timeout)
        IN \E stdout \in ReaderOutputs(sshProcess.output, completed) :
            LET result == IF first
                          THEN SshExecutableResult(stdout, sshProcess.status, completed)
                          ELSE sshProcess.result
                fails == AssertExitCodeFails(result, expected)
            IN sshProcess' =
                [sshProcess EXCEPT
                    !.calls = @ + 1,
                    !.waits = IF first THEN Append(@, timeout) ELSE @,
                    !.channelClosed = IF first /\ ~completed THEN TRUE ELSE @,
                    !.result = result,
                    !.returned = IF fails THEN @ ELSE Append(@, result),
                    !.raised = fails,
                    !.pc = IF fails THEN "raised" ELSE "returned"]
    /\ UNCHANGED notSsh

NextSsh == WaitResult

SpecSsh == InitSsh /\ [][NextSsh]_vars

\* C25: a result wait_result returned has is_timeout exactly when the process
\* did not exit within the timeout of the one wait on the channel, and then the
\* channel is closed and exit_code is 1; otherwise exit_code is the exit status;
\* a repeated call waits no second time and returns the same result.
C25_TimeoutObservableAndCached ==
    /\ Len(sshProcess.waits) <= 1
    /\ \A i \in 1..Len(sshProcess.returned) :
        LET r == sshProcess.returned[i]
            inTime == sshProcess.delay <= sshProcess.waits[1]
        IN /\ r = sshProcess.returned[1]
           /\ r.is_timeout = ~inTime
           /\ r.is_timeout => sshProcess.channelClosed /\ r.exit_code = 1
           /\ ~r.is_timeout => r.exit_code = sshProcess.status

\* a second call returned after the first one timed out
C25_Witness ==
    /\ Len(sshProcess.returned) = 2
    /\ sshProcess.returned[2].is_timeout
    /\ sshProcess.channelClosed
    /\ sshProcess.status # 1

-----------------------------------------------------------------------------
(* The depends marker (functional_tests/depends/__init__.py) *)

\* a group the regular expression of NodeId did not match
None == "None"

\* the tests of functional_tests/test_setup.py and the marker of each
TestCases == {"test_create_vm", "test_deploy_vm", "test_deployment"}
DependsMarks ==
    [test_create_vm |-> <<>>,
     test_deploy_vm |-> <<"test_create_vm">>,
     test_deployment |-> <<"test_deploy_vm">>]
TestPackage == "functional_tests/"
TestModule == "test_setup.py"

\* item.nodeid of a test function
ItemNodeId(test) == <<TestPackage, TestModule, "::", test>>

\* NodeId.parse of an item's nodeid, and of a bare test name
ParseNodeId(test) ==
    [test_package |-> TestPackage, test_module |-> TestModule,
     test_class |-> None, test_case |-> test]
ParseTarget(target) ==
    [test_package |-> None, test_module |-> None,
     test_class |-> None, test_case |-> target]

\* NodeId.merge: the leading empty parts of the target are taken from the source
NodeIdMerge(target, source) ==
    LET p == target.test_package = None
        m == p /\ target.test_module = None
        c == m /\ target.test_class = None
        k == c /\ target.test_case = None
    IN [test_package |-> IF p THEN source.test_package ELSE target.test_package,
        test_module |-> IF m THEN source.test_module ELSE target.test_module,
        test_class |-> IF c THEN source.test_class ELSE target.test_class,
        test_case |-> IF k THEN source.test_case ELSE target.test_case]

\* NodeId.render
NodeIdRender(id) ==
    LET a == IF id.test_package # None THEN <<id.test_package>> ELSE <<>>
        b == IF id.test_module # None THEN a \o <<id.test_module>> ELSE a
        c == IF id.test_class # None
             THEN (IF b # <<>> THEN b \o <<"::">> ELSE b) \o <<id.test_class>>
             ELSE b
    IN IF id.test_case # None
       THEN (IF c # <<>> THEN c \o <<"::">> ELSE c) \o <<id.test_case>>
       ELSE c

\* DependencyTracker.infer_full_id
infer_full_id(source, target) ==
    NodeIdRender(NodeIdMerge(ParseTarget(target), ParseNodeId(source)))

\* the names add_result files a report under: the package, the module and the
\* item itself (the tests are in no class)
ScopeNames(test) == { <<TestPackage>>, <<TestPackage, TestModule>>, ItemNodeId(test) }

\* DependencyTracker.add_result; reports is <<>> for report = None
add_result(results, test, reports) ==
    [n \in DOMAIN results \cup ScopeNames(test) |->
        IF n \in ScopeNames(test)
        THEN (IF n \in DOMAIN results THEN results[n] ELSE <<>>) \o reports
        ELSE results[n]]

\* ResultAggregator.success
AggregatorSuccess(reports) == \A i \in 1..Len(reports) : reports[i] = "passed"

\* DependencyTracker.check_dependencies: TRUE when pytest.skip is raised
check_dependencies(results, test, relative_dependencies) ==
    \E i \in 1..Len(relative_dependencies) :
        LET name == infer_full_id(test, relative_dependencies[i])
        IN \/ name \notin DOMAIN results
           \/ ~AggregatorSuccess(results[name])

\* the reports of one test: setup, call and teardown
SetupOutcomes == {"passed", "failed"}
CallOutcomes == {"passed", "failed", "skipped"}
TeardownOutcomes == {"passed", "failed"}

\* the orders in which a session can run a set of tests
Schedules(tests) ==
    { s \in SeqsUpTo(tests, Cardinality(tests)) :
        /\ Len(s) = Cardinality(tests)
        /\ \A i, j \in 1..Len(s) : i # j => s[i] # s[j] }

InitDepends ==
    /\ MainIdle
    /\ depends \in { [pc |-> "collecting", items |-> s, results |-> << >>,
                      ran |-> <<>>] :
                       s \in UNION { Schedules(c) : c \in SUBSET TestCases \ {{}} } }
    /\ raid = Idle /\ sshProcess = Idle /\ flash = Idle
    /\ patchRun = Idle /\ sshWait = Idle /\ uefi = Idle

notDepends == <<mainVars, raid, sshProcess, flash, patchRun, sshWait, uefi>>

\* the tracker after add_result(item, None) for the items in order
RECURSIVE BulkAdd(_, _)
BulkAdd(results, items) ==
    IF items = <<>> THEN results
    ELSE BulkAdd(add_result(results, Head(items), <<>>), Tail(items))

\* pytest_collection_modifyitems
CollectionModifyItems ==
    /\ depends.pc = "collecting"
    /\ depends' = [depends EXCEPT !.pc = "running",
                                  !.results = BulkAdd(@, depends.items)]
    /\ UNCHANGED notDepends

\* one test of the session: pytest_runtest_setup checks the markers, the test
\* runs when it is not skipped, and pytest_runtest_makereport files each report
RunTest ==
    /\ depends.pc = "running"
    /\ Len(depends.ran) < Len(depends.items)
    /\ LET test == depends.items[Len(depends.ran) + 1]
           skip == check_dependencies(depends.results, test, DependsMarks[test])
       IN \E setup \in SetupOutcomes, call \in CallOutcomes,
             teardown \in TeardownOutcomes :
            /\ skip => setup = "passed" /\ call = "passed"
            /\ setup = "failed" => call = "passed"
            /\ LET reports == IF skip THEN <<"skipped", teardown>>
                              ELSE IF setup = "failed" THEN <<"failed", teardown>>
                              ELSE <<"passed", call, teardown>>
               IN depends' =
                    [depends EXCEPT
                        !.results = add_result(@, test, reports),
                        !.ran = Append(@, [test |-> test, skipped |-> skip,
                                           reports |-> reports])]
    /\ UNCHANGED notDepends

NextDepends == CollectionModifyItems \/ RunTest

SpecDepends == InitDepends /\ [][NextDepends]_vars

\* C26: a test marked depends(X) that was not skipped ran after X, and every
\* report of X is 'passed', whatever the order of the session.
C26_DependentRunsAfterPassed ==
    \A i \in 1..Len(depends.ran) :
        LET t == depends.ran[i]
        IN ~t.skipped =>
            \A d \in 1..Len(DependsMarks[t.test]) :
                \E j \in 1..(i - 1) :
                    /\ depends.ran[j].test = DependsMarks[t.test][d]
                    /\ AggregatorSuccess(depends.ran[j].reports)

-----------------------------------------------------------------------------
(* FlashOsWorkflow.run (scripts/flash_os_workflow.py) *)

WorkflowSteps == <<"parse_host_config", "download_image", "upload_image", "flash_os">>

\* what the workflow meets: the host configuration file and its image.url,
\* the download directory and the server, the CLI and its return codes
WorkflowWorlds ==
    [configExists : BOOLEAN, hasImageUrl : BOOLEAN, alreadyDownloaded : BOOLEAN,
     downloadOk : BOOLEAN, cliPresent : BOOLEAN,
     uploadRc : {0, 1}, flashRc : {0, 1}]

CliCommand(step) ==
    IF step = "upload_image" THEN <<"/usr/bin/bmi-prep-agent-cli", "upload", "--file">>
    ELSE IF step = "flash_os"
    THEN <<"/usr/bin/bmi-prep-agent-cli", "flash-os", "--file-id", "foobar">>
    ELSE <<>>

StepRaisesNever(step, w) == "none"

\* the exception a step ends with, "none" when it returns
StepRaises(step, w) ==
    CASE step = "parse_host_config" ->
            IF ~w.configExists THEN "FileNotFoundError"
            ELSE IF ~w.hasImageUrl THEN "ValueError" ELSE "none"
      [] step = "download_image" ->
            IF w.alreadyDownloaded \/ w.downloadOk THEN "none" ELSE "RuntimeError"
      [] step = "upload_image" ->
            IF ~w.cliPresent THEN "FileNotFoundError"
            ELSE IF w.uploadRc # 0 THEN "RuntimeError" ELSE "none"
      [] step = "flash_os" ->
            IF ~w.cliPresent THEN "FileNotFoundError"
            ELSE IF w.flashRc # 0 THEN "RuntimeError" ELSE "none"

InitFlash ==
    /\ MainIdle
    /\ flash \in { [pc |-> "run", world |-> w, steps |-> <<>>, commands |-> <<>>,
                    result |-> FALSE, raised |-> "none"] : w \in WorkflowWorlds }
    /\ raid = Idle /\ sshProcess = Idle /\ depends = Idle
    /\ patchRun = Idle /\ sshWait = Idle /\ uefi = Idle

notFlash == <<mainVars, raid, sshProcess, depends, patchRun, sshWait, uefi>>

\* the next step of run: it is started, the CLI is called if it is there, and
\* an exception of the step takes run to its except clause
WorkflowStep ==
    /\ flash.pc = "run"
    /\ Len(flash.steps) < Len(WorkflowSteps)
    /\ LET step == WorkflowSteps[Len(flash.steps) + 1]
           exc == StepRaises(step, flash.world)
           issued_ == IF CliCommand(step) # <<>> /\ flash.world.cliPresent
                      THEN <<CliCommand(step)>> ELSE <<>>
       IN flash' = [flash EXCEPT
                        !.steps = Append(@, step),
                        !.commands = @ \o issued_,
                        !.pc = IF exc # "none" THEN "returned" ELSE @,
                        !.result = IF exc # "none" THEN FALSE ELSE @]
    /\ UNCHANGED notFlash

\* return True after the fourth step
WorkflowCompleted ==
    /\ flash.pc = "run"
    /\ Len(flash.steps) = Len(WorkflowSteps)
    /\ flash' = [flash EXCEPT !.pc = "returned", !.result = TRUE]
    /\ UNCHANGED notFlash

NextFlash == WorkflowStep \/ WorkflowCompleted

SpecFlash == InitFlash /\ [][NextFlash]_vars

\* the steps the world lets succeed
ParseOk == flash.world.configExists /\ flash.world.hasImageUrl
DownloadOk == flash.world.alreadyDownloaded \/ flash.world.downloadOk
UploadOk == flash.world.cliPresent /\ flash.world.uploadRc = 0
FlashOk == flash.world.cliPresent /\ flash.world.flashRc = 0
FlashOsIssued ==
    \E i \in 1..Len(flash.commands) : flash.commands[i][2] = "flash-os"

\* C27: run starts its four steps in order, each only after the earlier ones
\* succeeded; flash-os is issued only after a successful upload; run returns
\* True exactly when all four succeeded, False otherwise, and never raises.
C27_WorkflowOrdered ==
    flash.pc # "idle" =>
        /\ flash.steps = SubSeq(WorkflowSteps, 1, Len(flash.steps))
        /\ Len(flash.steps) >= 2 => ParseOk
        /\ Len(flash.steps) >= 3 => DownloadOk
        /\ Len(flash.steps) >= 4 => UploadOk
        /\ FlashOsIssued => ParseOk /\ DownloadOk /\ UploadOk
        /\ flash.raised = "none"
        /\ flash.pc = "returned" =>
            flash.result = (ParseOk /\ DownloadOk /\ UploadOk /\ FlashOk)

\* the upload failed and run returned False without the flash step
C27_Witness ==
    /\ flash.pc = "returned"
    /\ ~flash.result
    /\ ParseOk /\ DownloadOk /\ ~UploadOk /\ flash.world.cliPresent
    /\ Len(flash.steps) = 3
    /\ ~FlashOsIssued

-----------------------------------------------------------------------------
(* scripts/patch.py *)

\* the longest input ISO, in bytes
MaxIso == 5

\* the bytes of the model, and the placeholder (MAGIC_STRING and the path of
\* the configuration) shortened to two of them
IsoBytes == {"#", ":", Newline}
Placeholder == <<"#", ":">>
IsoContents == SeqsUpTo(IsoBytes, MaxIso)
PatchContents == SeqsUpTo(IsoBytes, MaxIso - 2)

\* contents[index:].find(b"\n") + 1, with the 1-based index of the model
PlaceholderLength(contents, index) ==
    LET nl == FindFrom(contents, <<Newline>>, index)
    IN IF nl = 0 THEN 0 ELSE nl - index + 1

PaddedPatchWithoutFill(patch, placeholderLength) ==
    IF placeholderLength > Len(patch) THEN patch \o <<Newline>> ELSE patch

\* lines 26-31: a newline, then '#' up to the length of the placeholder line
PaddedPatch(patch, placeholderLength) ==
    LET p1 == IF placeholderLength > Len(patch) THEN patch \o <<Newline>> ELSE patch
    IN IF placeholderLength > Len(p1)
       THEN p1 \o [k \in 1..(placeholderLength - Len(p1) - 1) |-> "#"] \o <<Newline>>
       ELSE p1

\* contents[index : index + placeholderLength] = patch
SliceAssign(contents, index, length, patch) ==
    SubSeq(contents, 1, index - 1) \o patch
        \o SubSeq(contents, index + length, Len(contents))

InitPatch ==
    /\ MainIdle
    /\ patchRun \in { [pc |-> "start", argc |-> n, contents |-> c, patch |-> p,
                       written |-> FALSE, output |-> <<>>, status |-> 0] :
                        n \in {3, 4}, c \in IsoContents, p \in PatchContents }
    /\ raid = Idle /\ sshProcess = Idle /\ depends = Idle
    /\ flash = Idle /\ sshWait = Idle /\ uefi = Idle

notPatch == <<mainVars, raid, sshProcess, depends, flash, sshWait, uefi>>

\* the script, from the argument count to the write of the output ISO
PatchIso ==
    /\ patchRun.pc = "start"
    /\ LET index == FindFrom(patchRun.contents, Placeholder, 1)
           length == PlaceholderLength(patchRun.contents, index)
           exits == \/ patchRun.argc < 4
                    \/ index = 0
                    \/ Len(patchRun.patch) > length
       IN patchRun' =
            IF exits
            THEN [patchRun EXCEPT !.pc = "exited", !.status = 1]
            ELSE [patchRun EXCEPT
                    !.pc = "written", !.written = TRUE,
                    !.output = SliceAssign(patchRun.contents, index, length,
                                           PaddedPatch(patchRun.patch, length))]
    /\ UNCHANGED notPatch

NextPatch == PatchIso

SpecPatch == InitPatch /\ [][NextPatch]_vars

\* the placeholder line of the input: its first byte and its length
MagicAt == FindFrom(patchRun.contents, Placeholder, 1)
LineLength ==
    IF \E k \in MagicAt..Len(patchRun.contents) : patchRun.contents[k] = Newline
    THEN (CHOOSE k \in MagicAt..Len(patchRun.contents) :
            /\ patchRun.contents[k] = Newline
            /\ \A j \in MagicAt..(k - 1) : patchRun.contents[j] # Newline)
         - MagicAt + 1
    ELSE 0

\* C28: an output that was written has the length of the input and the bytes
\* of the input outside the placeholder line; with the magic string absent or a
\* patch longer than the placeholder line the script exits 1 and writes nothing.
C28_PatchInPlace ==
    /\ patchRun.written =>
        /\ Len(patchRun.output) = Len(patchRun.contents)
        /\ \A k \in 1..Len(patchRun.contents) :
            (k < MagicAt \/ k >= MagicAt + LineLength) =>
                patchRun.output[k] = patchRun.contents[k]
    /\ patchRun.pc \notin {"idle", "start"}
         /\ (MagicAt = 0 \/ Len(patchRun.patch) > LineLength) =>
            /\ patchRun.pc = "exited"
            /\ patchRun.status = 1
            /\ ~patchRun.written

\* a patch two bytes shorter than the line was written before a trailing byte
C28_Witness ==
    /\ patchRun.written
    /\ MagicAt >= 1
    /\ Len(patchRun.patch) + 2 <= LineLength
    /\ MagicAt + LineLength <= Len(patchRun.contents)
    /\ patchRun.output # patchRun.contents

-----------------------------------------------------------------------------
(* wait_for_ssh_connection (deploy_on_bm.py) *)

wait_time_secs == 30

\* the longest timeout of a caller, counted in waits
MaxTimeoutWaits == 2

WaitForSshTimeouts == { k * wait_time_secs : k \in 0..MaxTimeoutWaits }

\* how long one ssh_connection.open() takes, in seconds
OpenDurations == {0, 10, wait_time_secs}

\* what ssh_connection.open() does: it returns, or raises an exception
OpenOutcomes ==
    {"opened", "ChannelException", "SSHException", "AuthenticationException",
     "TimeoutError", "ValueError", "NoValidConnectionsError", "OSError"}

IsConnectionErrorNever(outcome) == FALSE

\* the except clause at lines 60-67
IsConnectionError(outcome) ==
    outcome \in {"ChannelException", "SSHException", "AuthenticationException",
                 "TimeoutError", "ValueError", "NoValidConnectionsError"}

InitWait ==
    /\ MainIdle
    /\ sshWait \in { [pc |-> "loop", now |-> 0, stop_time |-> t, attempts |-> <<>>,
                      raised |-> "none"] : t \in WaitForSshTimeouts }
    /\ raid = Idle /\ sshProcess = Idle /\ depends = Idle
    /\ flash = Idle /\ patchRun = Idle /\ uefi = Idle

notWait == <<mainVars, raid, sshProcess, depends, flash, patchRun, uefi>>

\* one pass of the loop: open, and on a connection error either the timeout
\* exception or the sleep before the next pass
OpenAttempt ==
    /\ sshWait.pc = "loop"
    /\ \E outcome \in OpenOutcomes, d \in OpenDurations :
        LET after == sshWait.now + d
            this == [start |-> sshWait.now, end |-> after, outcome |-> outcome]
        IN sshWait' =
            IF outcome = "opened"
            THEN [sshWait EXCEPT !.pc = "returned", !.now = after,
                                 !.attempts = Append(@, this)]
            ELSE IF ~IsConnectionError(outcome)
            THEN [sshWait EXCEPT !.pc = "raised", !.now = after,
                                 !.attempts = Append(@, this),
                                 !.raised = outcome]
            ELSE IF after >= sshWait.stop_time
            THEN [sshWait EXCEPT !.pc = "raised", !.now = after,
                                 !.attempts = Append(@, this),
                                 !.raised = "timeout - ssh connection failed!"]
            ELSE [sshWait EXCEPT !.now = after + wait_time_secs,
                                 !.attempts = Append(@, this)]
    /\ UNCHANGED notWait

NextWait == OpenAttempt

\* a pass of the loop that can be taken is taken
SpecWait == InitWait /\ [][NextWait]_vars /\ WF_vars(NextWait)

\* what the passes so far say about the call
WaitSafe ==
    LET n == Len(sshWait.attempts)
        ListedFailure(a) == a.outcome \notin {"opened", "OSError"}
    IN sshWait.pc # "idle" =>
        /\ sshWait.pc = "returned" => n >= 1 /\ sshWait.attempts[n].outcome = "opened"
        /\ \A i \in 1..n :
            LET a == sshWait.attempts[i]
            IN /\ ListedFailure(a) /\ a.end < sshWait.stop_time =>
                    IF i < n
                    THEN sshWait.attempts[i + 1].start = a.end + wait_time_secs
                    ELSE sshWait.pc = "loop" /\ sshWait.now = a.end + wait_time_secs
               /\ ListedFailure(a) /\ a.end >= sshWait.stop_time =>
                    /\ i = n
                    /\ sshWait.pc = "raised"
                    /\ sshWait.raised = "timeout - ssh connection failed!"
               /\ a.outcome = "OSError" =>
                    i = n /\ sshWait.pc = "raised" /\ sshWait.raised = "OSError"

\* C29: the call returns only after an open succeeded; a listed failure
\* before the deadline is followed by the fixed wait and another attempt, one at
\* or after the deadline by the timeout exception, any other exception
\* propagates at once; and the call ends by returning or raising.
C29_WaitTerminates ==
    []WaitSafe /\ <>(sshWait.pc \in {"returned", "raised"})

\* the timeout exception after a listed failure that was retried
C29_Witness ==
    /\ sshWait.pc = "raised"
    /\ sshWait.raised = "timeout - ssh connection failed!"
    /\ Len(sshWait.attempts) >= 2

-----------------------------------------------------------------------------
(* inject_uefi_fallback_testing (tests/e2e_tests/helpers) *)

UefiVariants == {"edit_host_config", "inject_uefi_fallback_validation"}
uefi_fallback_modes == {"none", "rollback", "rollforward"}

\* the host configurations read: os absent or with or without uefiFallback,
\* health absent, without checks, or with a list of checks
Unset == "unset"
ExistingCheck == [name |-> "existing-check", mode |-> Unset, notInstall |-> Unset,
                  runOn |-> "ab-update"]
UefiHostConfigs ==
    { hc \in [hasOs : BOOLEAN, uefiFallback : {Unset} \cup uefi_fallback_modes,
                hasHealth : BOOLEAN, hasChecks : BOOLEAN,
                checks : {<<>>, <<ExistingCheck>>}] :
        /\ hc.uefiFallback # Unset => hc.hasOs
        /\ hc.hasChecks => hc.hasHealth
        /\ hc.checks # <<>> => hc.hasChecks }

\* the mode a caller can pass: only the copy under
\* inject_uefi_fallback_validation.py has the parameter
UefiModeArguments(variant) ==
    IF variant = "inject_uefi_fallback_validation"
    THEN {None} \cup uefi_fallback_modes ELSE {None}

\* hasattr(host_config["os"], "uefiFallback"): a dict has its keys as items,
\* not as attributes
HasAttr(os, name) == FALSE

\* the two checks appended, with the mode put into their content
HealthChecks(mode) ==
    << [name |-> "uefi-fallback-validation-update", mode |-> mode,
        notInstall |-> "true", runOn |-> "ab-update"],
       [name |-> "uefi-fallback-validation-install", mode |-> mode,
        notInstall |-> "false", runOn |-> "clean-install"] >>

InitUefi ==
    /\ MainIdle
    /\ uefi \in UNION { { [pc |-> "start", variant |-> v, uefi_fallback_mode |-> m,
                            host_config |-> hc, file |-> hc, raised |-> "none"] :
                            m \in UefiModeArguments(v), hc \in UefiHostConfigs } :
                        v \in UefiVariants }
    /\ raid = Idle /\ sshProcess = Idle /\ depends = Idle
    /\ flash = Idle /\ patchRun = Idle /\ sshWait = Idle

notUefi == <<mainVars, raid, sshProcess, depends, flash, patchRun, sshWait>>

\* inject_uefi_fallback_testing: load, inject, dump. random_mode is bound
\* only where random.choice ran; the copy under edit_host_config.py takes no
\* mode and always draws one
InjectUefiFallbackTesting ==
    /\ uefi.pc = "start"
    /\ \E random_choice \in uefi_fallback_modes :
        LET hc == uefi.host_config
            inject == ~HasAttr(hc, "uefiFallback")
            given == /\ uefi.variant = "inject_uefi_fallback_validation"
                     /\ uefi.uefi_fallback_mode # None
            unbound == inject /\ given
            mode == IF given THEN uefi.uefi_fallback_mode ELSE random_choice
            injected == [hasOs |-> TRUE, uefiFallback |-> mode, hasHealth |-> TRUE,
                         hasChecks |-> TRUE,
                         checks |-> hc.checks \o HealthChecks(random_choice)]
        IN uefi' =
            IF unbound
            THEN [uefi EXCEPT !.pc = "raised", !.raised = "UnboundLocalError"]
            ELSE [uefi EXCEPT !.pc = "returned",
                              !.file = IF inject THEN injected
                                       ELSE [hc EXCEPT !.hasOs = TRUE]]
    /\ UNCHANGED notUefi

NextUefi == InjectUefiFallbackTesting

SpecUefi == InitUefi /\ [][NextUefi]_vars

\* C30: with os.uefiFallback set in the host configuration, its value and the
\* list of checks are left as they were; with it not set, the file gets the
\* chosen mode (the caller's when one is given) and exactly two more checks
\* that refer to that mode.
C30_InjectOnlyIfUnset ==
    uefi.pc \in {"returned", "raised"} =>
        LET before == uefi.host_config
            after == uefi.file
        IN IF before.uefiFallback # Unset
           THEN /\ after.uefiFallback = before.uefiFallback
                /\ after.checks = before.checks
           ELSE /\ after.uefiFallback \in uefi_fallback_modes
                /\ uefi.uefi_fallback_mode # None =>
                        after.uefiFallback = uefi.uefi_fallback_mode
                /\ after.checks = before.checks \o HealthChecks(after.uefiFallback)

====
